---- MODULE Spec2Model ----
(***************************************************************************)
(* Model of the Zero CRM example scripts: the resilient request and        *)
(* validation layer (src/examples/error_handling.py), the pipeline         *)
(* reports (src/examples/pipeline_report.py) and the basic operations run  *)
(* (src/examples/basic_operations.py).  The first part is the request and  *)
(* validation layer:                                                       *)
(*                                                                         *)
(* A caller invokes one of                                                 *)
(*   make_request_with_retry(method, endpoint, max_retries, backoff_factor)*)
(*   safe_create_contact(contact)                                          *)
(*   safe_create_deal(deal)                                                *)
(* and the remote server / transport answers every HTTP request with an    *)
(* outcome chosen by the environment.                                      *)
(*                                                                         *)
(* Python values are represented as follows.                               *)
(*   dict        a function whose DOMAIN is the set of present keys        *)
(*   str         for contact fields a sequence of one-character strings,   *)
(*               for deal fields (only compared and tested for emptiness)  *)
(*               a TLA+ string                                             *)
(*   None/dict/list as results:  [t |-> "None"], [t |-> "dict", v |-> d],  *)
(*               [t |-> "list", v |-> s]                                   *)
(***************************************************************************)
EXTENDS Integers, Sequences, FiniteSets, TLC

VARIABLES
    pc,              \* where the caller is: "idle", "loop", "post", "done"
    op,              \* the function called: "none", "request", "contact", "deal"
    record,          \* the dict passed to validate_contact / validate_deal
    verdict,         \* (is_valid, error) returned by validate_contact / validate_deal
    max_retries,     \* argument of make_request_with_retry
    backoff_factor,  \* argument of make_request_with_retry
    attempt,         \* loop variable of `for attempt in range(max_retries)`
    outcomes,        \* history: the outcome of every HTTP request sent, in order
    sleeps,          \* history: every time.sleep call, [after |-> attempt, secs |-> wait]
    result,          \* value returned by make_request_with_retry
    ret,             \* value returned (or exception raised) by safe_create_*
    deals,           \* the list of deal dicts passed to a report function
    contacts,        \* the list of contact dicts passed to contact_engagement
    printed,         \* the data lines a report function has printed, in order
    returned,        \* value returned by a report function
    sent,            \* history: the requests basic_operations.main has sent and
                     \* the status of their responses, in order
    contact_id,      \* local of main: the id create_contact returned
    deal_id          \* local of main: the id create_deal returned

vars == <<pc, op, record, verdict, max_retries, backoff_factor, attempt,
          outcomes, sleeps, result, ret, deals, contacts, printed, returned,
          sent, contact_id, deal_id>>

\* the variables of the request / validation layer and those of the reports
requestVars == <<record, verdict, max_retries, backoff_factor, attempt,
                 outcomes, sleeps, result, ret>>
reportVars == <<deals, contacts, printed, returned>>
mainVars == <<sent, contact_id, deal_id>>

(***************************************************************************)
(* Bounds of the model.                                                    *)
(***************************************************************************)
MaxRetriesBound == 3     \* max_retries ranges over -1 .. MaxRetriesBound
MaxBackoff == 3          \* backoff_factor ranges over 0 .. MaxBackoff
MaxNameLen == 2          \* longest contact name
MaxEmailLen == 2         \* longest contact email
MaxPhoneLen == 6         \* longest contact phone
MaxCreated == 1          \* longest 'created' list in a response body
MaxDeals == 3            \* longest list of deals passed to a report function
MaxContacts == 2         \* longest freely chosen list (or tail) of contacts

(***************************************************************************)
(* Program constants.                                                      *)
(***************************************************************************)
DefaultMaxRetries == 3   \* max_retries=3
DefaultBackoff == 2      \* backoff_factor=2
MinPhoneLen == 5         \* len(phone) < 5
TopCompanies == 5        \* sorted_companies[:5]

(***************************************************************************)
(* Python helpers.                                                         *)
(***************************************************************************)
EmptyDict == [k \in {} |-> 0]

\* dict.get(key, default)
Get(d, key, default) == IF key \in DOMAIN d THEN d[key] ELSE default

PyNone == [t |-> "None"]
PyDict(d) == [t |-> "dict", v |-> d]
PyList(s) == [t |-> "list", v |-> s]

\* truth value of a result: None, {} and [] are falsy
Truthy(x) ==
    CASE x.t = "None" -> FALSE
      [] x.t = "dict" -> DOMAIN x.v # {}
      [] x.t = "list" -> Len(x.v) > 0

\* base ** exponent for a non-negative integer exponent (0 ** 0 is 1)
RECURSIVE Pow(_, _)
Pow(base, exponent) ==
    IF exponent = 0 THEN 1 ELSE base * Pow(base, exponent - 1)

\* str.isspace for one character
IsSpace(ch) == ch \in {" ", "\t", "\n"}

\* str.lstrip()
RECURSIVE LStrip(_)
LStrip(s) ==
    IF s = <<>> THEN s
    ELSE IF IsSpace(Head(s)) THEN LStrip(Tail(s)) ELSE s

\* str.rstrip()
RECURSIVE RStrip(_)
RStrip(s) ==
    IF s = <<>> THEN s
    ELSE IF IsSpace(s[Len(s)]) THEN RStrip(SubSeq(s, 1, Len(s) - 1)) ELSE s

\* faulty variant of Strip: the name is tested without being stripped
StripNothing(s) == s

\* str.strip()
Strip(s) == RStrip(LStrip(s))

\* faulty variant of Contains: only the first character is looked at
ContainsAtStart(s, ch) == s # <<>> /\ s[1] = ch

\* ch in s
Contains(s, ch) == \E i \in 1..Len(s) : s[i] = ch

(***************************************************************************)
(* Validation (pure functions).  The verdict is the pair (is_valid, error); *)
(* error is the fixed text of the message, "None" standing for None (the   *)
(* value interpolated into the message is left out).                       *)
(***************************************************************************)
Verdict(is_valid, error) == [valid |-> is_valid, error |-> error]

\* faulty variant of validate_contact: a phone of exactly 5 characters is too short
validate_contact_phone_le(contact) ==
    IF Get(contact, "name", <<>>) = <<>>
    THEN Verdict(FALSE, "Missing required field: name")
    ELSE IF Strip(contact["name"]) = <<>>
    THEN Verdict(FALSE, "Name cannot be empty")
    ELSE LET email == Get(contact, "email", <<>>)
             phone == Get(contact, "phone", <<>>)
         IN  IF email # <<>> /\ ~Contains(email, "@")
             THEN Verdict(FALSE, "Invalid email format")
             ELSE IF phone # <<>> /\ Len(phone) <= MinPhoneLen
             THEN Verdict(FALSE, "Phone number too short")
             ELSE Verdict(TRUE, "None")

\* faulty variant of validate_contact: a field it does not know is an error
validate_contact_strict(contact) ==
    IF ~(DOMAIN contact \subseteq {"name", "email", "phone"})
    THEN Verdict(FALSE, "Unknown field")
    ELSE IF Get(contact, "name", <<>>) = <<>>
    THEN Verdict(FALSE, "Missing required field: name")
    ELSE IF Strip(contact["name"]) = <<>>
    THEN Verdict(FALSE, "Name cannot be empty")
    ELSE LET email == Get(contact, "email", <<>>)
             phone == Get(contact, "phone", <<>>)
         IN  IF email # <<>> /\ ~Contains(email, "@")
             THEN Verdict(FALSE, "Invalid email format")
             ELSE IF phone # <<>> /\ Len(phone) < MinPhoneLen
             THEN Verdict(FALSE, "Phone number too short")
             ELSE Verdict(TRUE, "None")

validate_contact(contact) ==
    IF Get(contact, "name", <<>>) = <<>>
    THEN Verdict(FALSE, "Missing required field: name")
    ELSE IF Strip(contact["name"]) = <<>>
    THEN Verdict(FALSE, "Name cannot be empty")
    ELSE LET email == Get(contact, "email", <<>>)
             phone == Get(contact, "phone", <<>>)
         IN  IF email # <<>> /\ ~Contains(email, "@")
             THEN Verdict(FALSE, "Invalid email format")
             ELSE IF phone # <<>> /\ Len(phone) < MinPhoneLen
             THEN Verdict(FALSE, "Phone number too short")
             ELSE Verdict(TRUE, "None")

\* faulty variant of valid_priorities: 'Urgent' is a priority too
valid_priorities_wide == {"Low", "Medium", "High", "Urgent"}

valid_priorities == {"Low", "Medium", "High"}

\* faulty variant of validate_deal: the value is checked before the stage
validate_deal_value_first(deal) ==
    IF Get(deal, "title", "") = ""
    THEN Verdict(FALSE, "Missing required field: title")
    ELSE IF Get(deal, "value", 0) < 0
    THEN Verdict(FALSE, "Deal value cannot be negative")
    ELSE IF Get(deal, "stage", "") = ""
    THEN Verdict(FALSE, "Missing required field: stage")
    ELSE LET priority == Get(deal, "priority", "")
         IN  IF priority # "" /\ priority \notin valid_priorities
             THEN Verdict(FALSE, "Invalid priority")
             ELSE Verdict(TRUE, "None")

\* faulty variant of validate_deal: a value of 0 is rejected too
validate_deal_value_le(deal) ==
    IF Get(deal, "title", "") = ""
    THEN Verdict(FALSE, "Missing required field: title")
    ELSE IF Get(deal, "stage", "") = ""
    THEN Verdict(FALSE, "Missing required field: stage")
    ELSE LET value == Get(deal, "value", 0)
             priority == Get(deal, "priority", "")
         IN  IF value <= 0
             THEN Verdict(FALSE, "Deal value cannot be negative")
             ELSE IF priority # "" /\ priority \notin valid_priorities
             THEN Verdict(FALSE, "Invalid priority")
             ELSE Verdict(TRUE, "None")

validate_deal(deal) ==
    IF Get(deal, "title", "") = ""
    THEN Verdict(FALSE, "Missing required field: title")
    ELSE IF Get(deal, "stage", "") = ""
    THEN Verdict(FALSE, "Missing required field: stage")
    ELSE LET value == Get(deal, "value", 0)
             priority == Get(deal, "priority", "")
         IN  IF value < 0
             THEN Verdict(FALSE, "Deal value cannot be negative")
             ELSE IF priority # "" /\ priority \notin valid_priorities
             THEN Verdict(FALSE, "Invalid priority")
             ELSE Verdict(TRUE, "None")

(***************************************************************************)
(* Inputs: the records a caller may pass.                                  *)
(***************************************************************************)
\* all strings over `chars` of length 0 .. n
Strings(chars, n) == UNION {[1..k -> chars] : k \in 0..n}

\* a field that is absent, or present with one of `values`
Optional(key, values) == {EmptyDict} \cup {key :> v : v \in values}

Names == Strings({"A", " "}, MaxNameLen)
Emails ==
    Strings({"a", "@"}, MaxEmailLen)
        \cup {<<"b", "a", "d">>, <<"a", "@", "b", ".", "c", "o", "m">>}
Phones == {[i \in 1..k |-> "5"] : k \in 0..MaxPhoneLen}

Companies == {<<"C">>}

Contacts ==
    {n @@ e @@ p @@ c : n \in Optional("name", Names),
                        e \in Optional("email", Emails),
                        p \in Optional("phone", Phones),
                        c \in Optional("company", Companies)}

Titles == {"", "T"}
Stages == {"", "Lead", "Closed Won"}
Values == {-1, 0, 1}
Priorities == {"", "Low", "Medium", "High", "high", "Urgent"}
Notes == {"n"}

Deals ==
    {t @@ s @@ v @@ p @@ n : t \in Optional("title", Titles),
                             s \in Optional("stage", Stages),
                             v \in Optional("value", Values),
                             p \in Optional("priority", Priorities),
                             n \in Optional("notes", Notes)}

(***************************************************************************)
(* Outcomes of one HTTP request: a response (status line and body) or a    *)
(* transport exception raised by requests.request.                         *)
(***************************************************************************)
Statuses == {200, 201, 300, 400, 401, 403, 404, 429, 500, 503}

\* the list [{id: 1}, ..., {id: n}] of created records
CreatedList(n) == [i \in 1..n |-> [id |-> i]]

\* response bodies: text that is no JSON, and the JSON documents null,
\* {}, {message}, {created, skipped}, [] and [1]
TextBody == [t |-> "text"]
JsonObjects ==
    {EmptyDict, "message" :> "ok"}
        \cup {("created" :> CreatedList(n)) @@ ("skipped" :> <<>>) : n \in 0..MaxCreated}
Bodies ==
    {TextBody, [t |-> "null"]}
        \cup {[t |-> "object", v |-> d] : d \in JsonObjects}
        \cup {[t |-> "array", v |-> s] : s \in {<<>>, <<1>>}}

TransportErrors == {"ConnectionError", "Timeout", "TooManyRedirects"}

Response(status, body) == [exc |-> "none", status |-> status, body |-> body]
Failure(exc) == [exc |-> exc, status |-> 0, body |-> TextBody]

\* an error response carries free text; any other response carries any body
Outcomes ==
    {Response(s, b) : s \in {x \in Statuses : x < 400}, b \in Bodies}
        \cup {Response(s, TextBody) : s \in {x \in Statuses : x >= 400}}
        \cup {Failure(e) : e \in TransportErrors}

\* Response.raise_for_status(): HTTPError for 4xx and 5xx
raise_for_status(status) == 400 <= status /\ status < 600

\* Response.json(): the decoded body (a body that is no JSON raises
\* requests.exceptions.JSONDecodeError, see Raised)
json(body) ==
    CASE body.t = "null" -> PyNone
      [] body.t = "object" -> PyDict(body.v)
      [] body.t = "array" -> PyList(body.v)

\* the exception the try block raises for an outcome, "none" if it returns
Raised(o) ==
    IF o.exc # "none" THEN o.exc
    ELSE IF raise_for_status(o.status) THEN "HTTPError"
    ELSE IF o.body.t = "text" THEN "JSONDecodeError"
    ELSE "none"

(***************************************************************************)
(* State after construction: nothing has been called yet.                  *)
(***************************************************************************)
Init ==
    /\ pc = "idle"
    /\ op = "none"
    /\ record = EmptyDict
    /\ verdict = Verdict(FALSE, "")
    /\ max_retries = 0
    /\ backoff_factor = 0
    /\ attempt = 0
    /\ outcomes = <<>>
    /\ sleeps = <<>>
    /\ result = PyNone
    /\ ret = PyNone
    /\ deals = <<>>
    /\ contacts = <<>>
    /\ printed = <<>>
    /\ returned = PyNone
    /\ sent = <<>>
    /\ contact_id = PyNone
    /\ deal_id = PyNone

(***************************************************************************)
(* make_request_with_retry                                                 *)
(***************************************************************************)
\* entry: the loop `for attempt in range(max_retries)` starts at 0
Enter(retries, factor) ==
    /\ max_retries' = retries
    /\ backoff_factor' = factor
    /\ attempt' = 0
    /\ pc' = "loop"

\* `return value`: back to the caller
Return(value) ==
    /\ result' = value
    /\ pc' = IF op = "request" THEN "done" ELSE "post"
    /\ UNCHANGED <<attempt, sleeps>>

\* faulty variant of wait_time: linear instead of exponential backoff
wait_time_linear(factor, index) == factor * index

\* wait_time = backoff_factor ** attempt
wait_time(factor, index) == Pow(factor, index)

\* faulty variant of RetryOrGiveUp: exhaustion returns an error value of its own
RetryOrGiveUpTagged ==
    IF attempt < max_retries - 1
    THEN /\ sleeps' = Append(sleeps, [after |-> attempt,
                                      secs |-> wait_time(backoff_factor, attempt)])
         /\ attempt' = attempt + 1
         /\ UNCHANGED <<pc, result>>
    ELSE Return(PyDict("error" :> "exhausted"))

\* a retryable failure: sleep and go on with the next attempt unless this
\* was the last one (attempt < max_retries - 1), else return None
RetryOrGiveUp ==
    IF attempt < max_retries - 1
    THEN /\ sleeps' = Append(sleeps, [after |-> attempt,
                                      secs |-> wait_time(backoff_factor, attempt)])
         /\ attempt' = attempt + 1
         /\ UNCHANGED <<pc, result>>
    ELSE Return(PyNone)

\* faulty variant of Send: the loop runs over range(max_retries + 1)
SendOneMore(o) ==
    /\ pc = "loop"
    /\ attempt <= max_retries
    /\ outcomes' = Append(outcomes, o)
    /\ UNCHANGED <<op, record, verdict, max_retries, backoff_factor, ret>>
    /\ UNCHANGED reportVars
    /\ UNCHANGED mainVars

\* one iteration sends one request and receives outcome o
Send(o) ==
    /\ pc = "loop"
    /\ attempt < max_retries
    /\ outcomes' = Append(outcomes, o)
    /\ UNCHANGED <<op, record, verdict, max_retries, backoff_factor, ret>>
    /\ UNCHANGED reportVars
    /\ UNCHANGED mainVars

\* faulty variant of TryReturn: the decoded body is not returned and the loop
\* goes on with the next attempt
TryReturnFallsThrough(o) ==
    /\ Raised(o) = "none"
    /\ Send(o)
    /\ attempt' = attempt + 1
    /\ UNCHANGED <<pc, result, sleeps>>

\* the try block completes: return response.json()
TryReturn(o) ==
    /\ Raised(o) = "none"
    /\ Send(o)
    /\ Return(json(o.body))

\* faulty variant of ExceptHTTPError: 404 is retried like a server error
ExceptHTTPErrorRetry404(o) ==
    /\ Raised(o) = "HTTPError"
    /\ Send(o)
    /\ IF o.status = 401 THEN Return(PyNone)
       ELSE IF o.status = 400 THEN Return(PyNone)
       ELSE IF o.status >= 500 \/ o.status = 404 THEN RetryOrGiveUp
       ELSE Return(PyNone)

\* faulty variant of ExceptHTTPError: status 500 itself is not retried
ExceptHTTPErrorAbove500(o) ==
    /\ Raised(o) = "HTTPError"
    /\ Send(o)
    /\ IF o.status = 401 THEN Return(PyNone)
       ELSE IF o.status = 404 THEN Return(PyNone)
       ELSE IF o.status = 400 THEN Return(PyNone)
       ELSE IF o.status > 500 THEN RetryOrGiveUp
       ELSE Return(PyNone)

\* faulty variant of ExceptHTTPError: every status not named is retried
ExceptHTTPErrorRetryOther(o) ==
    /\ Raised(o) = "HTTPError"
    /\ Send(o)
    /\ IF o.status = 401 THEN Return(PyNone)
       ELSE IF o.status = 404 THEN Return(PyNone)
       ELSE IF o.status = 400 THEN Return(PyNone)
       ELSE RetryOrGiveUp

\* except HTTPError
ExceptHTTPError(o) ==
    /\ Raised(o) = "HTTPError"
    /\ Send(o)
    /\ IF o.status = 401 THEN Return(PyNone)
       ELSE IF o.status = 404 THEN Return(PyNone)
       ELSE IF o.status = 400 THEN Return(PyNone)
       ELSE IF o.status >= 500 THEN RetryOrGiveUp
       ELSE Return(PyNone)

\* except ConnectionError
ExceptConnectionError(o) ==
    /\ Raised(o) = "ConnectionError"
    /\ Send(o)
    /\ RetryOrGiveUp

\* except Timeout
ExceptTimeout(o) ==
    /\ Raised(o) = "Timeout"
    /\ Send(o)
    /\ RetryOrGiveUp

\* except RequestException: every other exception of requests, among them
\* the JSONDecodeError of response.json()
ExceptRequestException(o) ==
    /\ Raised(o) \in {"TooManyRedirects", "JSONDecodeError"}
    /\ Send(o)
    /\ Return(PyNone)

\* the loop ends without an attempt having returned: the final return None
LoopExit ==
    /\ pc = "loop"
    /\ attempt >= max_retries
    /\ Return(PyNone)
    /\ UNCHANGED <<op, record, verdict, max_retries, backoff_factor, outcomes, ret>>
    /\ UNCHANGED reportVars
    /\ UNCHANGED mainVars

\* a direct call make_request_with_retry(method, endpoint, max_retries, backoff_factor)
make_request_with_retry(retries, factor) ==
    /\ pc = "idle"
    /\ op' = "request"
    /\ Enter(retries, factor)
    /\ UNCHANGED <<record, verdict, outcomes, sleeps, result, ret>>
    /\ UNCHANGED reportVars
    /\ UNCHANGED mainVars

(***************************************************************************)
(* safe_create_contact / safe_create_deal                                  *)
(***************************************************************************)
Raise(exception) == [t |-> "raise", v |-> exception]

\* faulty variant of SafeCreate: the request is made whatever the verdict
SafeCreateUnchecked(kind, is_valid_error) ==
    /\ pc = "idle"
    /\ op' = kind
    /\ verdict' = is_valid_error
    /\ Enter(DefaultMaxRetries, DefaultBackoff)
    /\ UNCHANGED <<record, outcomes, sleeps, result, ret>>
    /\ UNCHANGED reportVars
    /\ UNCHANGED mainVars

\* validate, then either return None or POST the record with the default
\* retry arguments
SafeCreate(kind, is_valid_error) ==
    /\ pc = "idle"
    /\ op' = kind
    /\ verdict' = is_valid_error
    /\ IF ~is_valid_error.valid
       THEN /\ ret' = PyNone
            /\ pc' = "done"
            /\ UNCHANGED <<max_retries, backoff_factor, attempt>>
       ELSE /\ Enter(DefaultMaxRetries, DefaultBackoff)
            /\ UNCHANGED ret
    /\ UNCHANGED <<record, outcomes, sleeps, result>>
    /\ UNCHANGED reportVars
    /\ UNCHANGED mainVars

safe_create_contact(contact) == SafeCreate("contact", validate_contact(contact))

safe_create_deal(deal) == SafeCreate("deal", validate_deal(deal))

\* result.get('created', [{}])[0]
FirstCreated(res) ==
    IF res.t # "dict" THEN Raise("AttributeError")
    ELSE LET created == Get(res.v, "created", <<EmptyDict>>)
         IN  IF Len(created) = 0 THEN Raise("IndexError") ELSE PyDict(created[1])

\* after make_request_with_retry returned: `if result: ... return created`,
\* else `return None`
SafeCreateReturn ==
    /\ pc = "post"
    /\ ret' = IF Truthy(result) THEN FirstCreated(result) ELSE PyNone
    /\ pc' = "done"
    /\ UNCHANGED <<op, record, verdict, max_retries, backoff_factor, attempt,
                   outcomes, sleeps, result>>
    /\ UNCHANGED reportVars
    /\ UNCHANGED mainVars

(***************************************************************************)
(* Specification                                                           *)
(***************************************************************************)
Next ==
    \/ \E retries \in -1..MaxRetriesBound, factor \in 1..MaxBackoff :
           make_request_with_retry(retries, factor)
    \/ \E contact \in Contacts : safe_create_contact(contact)
    \/ \E deal \in Deals : safe_create_deal(deal)
    \/ \E o \in Outcomes : TryReturn(o)
    \/ \E o \in Outcomes : ExceptHTTPError(o)
    \/ \E o \in Outcomes : ExceptConnectionError(o)
    \/ \E o \in Outcomes : ExceptTimeout(o)
    \/ \E o \in Outcomes : ExceptRequestException(o)
    \/ LoopExit
    \/ SafeCreateReturn

Spec == Init /\ [][Next]_vars

\* every step of a running call is taken: Python runs the call to its end and
\* every request ends within its timeout
FairSpec == Spec /\ WF_vars(Next)

(***************************************************************************)
(* The validators as pure functions: the record is drawn from the inputs   *)
(* and the validator is applied to it.                                     *)
(***************************************************************************)
InitValidate ==
    /\ pc = "call"
    /\ \/ op = "validate_contact" /\ record \in Contacts
       \/ op = "validate_deal" /\ record \in Deals
    /\ verdict = Verdict(FALSE, "")
    /\ max_retries = 0
    /\ backoff_factor = 0
    /\ attempt = 0
    /\ outcomes = <<>>
    /\ sleeps = <<>>
    /\ result = PyNone
    /\ ret = PyNone
    /\ deals = <<>>
    /\ contacts = <<>>
    /\ printed = <<>>
    /\ returned = PyNone
    /\ sent = <<>>
    /\ contact_id = PyNone
    /\ deal_id = PyNone

Validate(name, is_valid_error) ==
    /\ pc = "call"
    /\ op = name
    /\ verdict' = is_valid_error
    /\ pc' = "done"
    /\ UNCHANGED <<op, record, max_retries, backoff_factor, attempt,
                   outcomes, sleeps, result, ret>>
    /\ UNCHANGED reportVars
    /\ UNCHANGED mainVars

ValidateContact == Validate("validate_contact", validate_contact(record))

ValidateDeal == Validate("validate_deal", validate_deal(record))

NextValidate == ValidateContact \/ ValidateDeal

SpecValidate == InitValidate /\ [][NextValidate]_vars

(***************************************************************************)
(* Properties of make_request_with_retry                                   *)
(***************************************************************************)
\* make_request_with_retry has returned to its caller
Returned == pc \in {"post", "done"} /\ (op = "request" \/ (op \in {"contact", "deal"} /\ verdict.valid))

\* the number of requests sent so far
Requests == Len(outcomes)

\* the sleeps made after the request with 1-based position i
SleepsAfter(i) == {k \in 1..Len(sleeps) : sleeps[k].after >= i - 1}

IsResponse(o) == o.exc = "none"
IsTransientStatus(o) == IsResponse(o) /\ o.status >= 500
IsTransient(o) == IsTransientStatus(o) \/ o.exc \in {"ConnectionError", "Timeout"}
Is2xx(o) == IsResponse(o) /\ o.status \in 200..299
IsJson(o) == o.body.t # "text"

C1_Bound ==
    /\ Requests <= (IF max_retries > 0 THEN max_retries ELSE 0)
    /\ pc = "loop" => Requests = attempt
    /\ Returned => Requests = (IF Requests = 0 THEN 0 ELSE attempt + 1)

\* C1: one HTTP request is sent per attempt, at most max_retries requests are
\* sent in total (none when max_retries <= 0), and every call returns.
C1_OneRequestPerAttemptBounded ==
    /\ []C1_Bound
    /\ (pc = "loop") ~> (pc \in {"post", "done"})

\* C1 witness: a call that used all its attempts and returned
C1_Witness ==
    /\ op = "request" /\ pc = "done"
    /\ max_retries = MaxRetriesBound /\ Requests = max_retries

\* C2: a 401, 404 or 400 response, on whichever attempt, is the last request
\* of the call: the call has returned None and no sleep follows the response.
C2_TerminalStatusNoRetry ==
    \A i \in 1..Requests :
        (IsResponse(outcomes[i]) /\ outcomes[i].status \in {401, 404, 400})
            => /\ i = Requests
               /\ Returned
               /\ result = PyNone
               /\ SleepsAfter(i) = {}

\* C2 witness: a 404 after one retried server error
C2_Witness ==
    /\ op = "request" /\ pc = "done" /\ Requests = 2
    /\ outcomes[1].status = 500 /\ outcomes[2].status = 404
    /\ Len(sleeps) = 1

\* C3: after a failure with status >= 500, a connection failure or a timeout
\* that is not the last allowed attempt, the call has slept once and goes on
\* with another attempt; with 500, 500, 200 and max_retries = 3 exactly three
\* requests are sent and the decoded third body is returned.
C3_TransientRetried ==
    /\ \A i \in 1..Requests :
           (IsTransient(outcomes[i]) /\ i < max_retries)
               => /\ \E k \in 1..Len(sleeps) : sleeps[k].after = i - 1
                  /\ \/ Requests > i
                     \/ pc = "loop" /\ attempt = i /\ ENABLED (\E o \in Outcomes : Send(o))
    /\ ( /\ max_retries = 3 /\ Requests >= 3
         /\ outcomes[1] = Response(500, TextBody)
         /\ outcomes[2] = Response(500, TextBody)
         /\ Is2xx(outcomes[3]) /\ IsJson(outcomes[3]) )
           => /\ Requests = 3
              /\ Returned
              /\ result = json(outcomes[3].body)

\* C3 witness: 500, 500, 200 with max_retries = 3
C3_Witness ==
    /\ max_retries = 3 /\ Requests = 3 /\ Returned
    /\ outcomes[1].status = 500 /\ outcomes[2].status = 500
    /\ outcomes[3] = Response(200, [t |-> "object", v |-> "message" :> "ok"])
    /\ result = PyDict("message" :> "ok")

\* C4: when every attempt fails with a transient failure the call makes
\* exactly max_retries attempts, sleeps backoff_factor ** i after attempt i for
\* i = 0 .. max_retries - 2 and not after the last, and returns None
\* (delays 1, 2 for factor 2 and 3 attempts).
C4_ExhaustionBackoff ==
    (Returned /\ Requests >= 1 /\ \A i \in 1..Requests : IsTransient(outcomes[i]))
        => /\ Requests = max_retries
           /\ Len(sleeps) = max_retries - 1
           /\ \A k \in 1..Len(sleeps) :
                  /\ sleeps[k].after = k - 1
                  /\ sleeps[k].secs = backoff_factor ^ (k - 1)
           /\ result = PyNone
           /\ (backoff_factor = 2 /\ max_retries = 3)
                  => <<sleeps[1].secs, sleeps[2].secs>> = <<1, 2>>

\* C4 witness: three server errors with the default arguments
C4_Witness ==
    /\ Returned /\ max_retries = 3 /\ backoff_factor = 2 /\ Requests = 3
    /\ \A i \in 1..3 : outcomes[i].status = 500
    /\ Len(sleeps) = 2

\* C5 as stated: any status that is not 2xx, not 401, 404, 400 and not >= 500
\* ends the call with None after that attempt.
C5_AnyOtherStatusTerminal ==
    \A i \in 1..Requests :
        ( /\ IsResponse(outcomes[i])
          /\ ~Is2xx(outcomes[i])
          /\ outcomes[i].status \notin {401, 404, 400}
          /\ outcomes[i].status < 500 )
            => /\ i = Requests
               /\ Returned
               /\ result = PyNone
               /\ SleepsAfter(i) = {}

\* C5 (amended): a 4xx status other than 401, 404, 400 ends the call with None
\* after that attempt, with no retry and no sleep; a status below 400 that is
\* not 2xx raises no HTTPError: it also ends the call with that attempt, but
\* the body is decoded and returned as for a 2xx (None when it is no JSON).
C5_Other4xxTerminal ==
    \A i \in 1..Requests :
        ( /\ IsResponse(outcomes[i])
          /\ ~Is2xx(outcomes[i])
          /\ outcomes[i].status \notin {401, 404, 400}
          /\ outcomes[i].status < 500 )
            => /\ i = Requests
               /\ Returned
               /\ SleepsAfter(i) = {}
               /\ outcomes[i].status \in 400..499 => result = PyNone
               /\ outcomes[i].status < 400 =>
                      result = (IF IsJson(outcomes[i]) THEN json(outcomes[i].body)
                                ELSE PyNone)

\* C5 witness: a single 429 response ended the call
C5_Witness ==
    /\ op = "request" /\ pc = "done" /\ max_retries = 3
    /\ outcomes = <<Response(429, TextBody)>>
    /\ result = PyNone /\ sleeps = <<>>

\* C6 as stated: a 2xx response ends the call, which returns the decoded JSON
\* body of that response.
C6_2xxReturnsDecodedBody ==
    \A i \in 1..Requests :
        Is2xx(outcomes[i])
            => /\ i = Requests
               /\ Returned
               /\ SleepsAfter(i) = {}
               /\ IsJson(outcomes[i])
               /\ result = json(outcomes[i].body)

\* C6 (amended): a 2xx response ends the call with that attempt, no further
\* attempt and no sleep; the call returns the decoded body when the body is
\* JSON, and None when it is not.
C6_2xxEndsCall ==
    \A i \in 1..Requests :
        Is2xx(outcomes[i])
            => /\ i = Requests
               /\ Returned
               /\ SleepsAfter(i) = {}
               /\ result = (IF IsJson(outcomes[i]) THEN json(outcomes[i].body)
                            ELSE PyNone)

\* C6 witness: a 201 with a JSON body on the second attempt
C6_Witness ==
    /\ Returned /\ Requests = 2
    /\ outcomes[1].status = 503
    /\ outcomes[2].status = 201 /\ outcomes[2].body.t = "object"
    /\ result = PyDict(outcomes[2].body.v) /\ Truthy(result)

\* the last request failed: an error status or a transport exception
LastFailed == Requests >= 1 /\ (~IsResponse(outcomes[Requests]) \/ outcomes[Requests].status >= 400)

\* C7: every failure, a terminal status as well as exhausted retries, is
\* returned as the same value None.
C7_FailuresReturnNone ==
    (Returned /\ (Requests = 0 \/ LastFailed)) => result = PyNone

\* C7 witness: retries exhausted by timeouts, None returned
C7_Witness ==
    /\ Returned /\ Requests = max_retries /\ max_retries >= 2
    /\ \A i \in 1..Requests : outcomes[i].exc = "Timeout"
    /\ result = PyNone

(***************************************************************************)
(* Properties of safe_create_contact / safe_create_deal                    *)
(***************************************************************************)
\* C8: when validation fails no request is sent and None is returned at
\* once; a request is on its way only after a valid verdict.
C8_NoRequestWhenInvalid ==
    op \in {"contact", "deal"}
        => /\ ~verdict.valid => (Requests = 0 /\ pc = "done" /\ ret = PyNone)
           /\ (Requests > 0 \/ pc \in {"loop", "post"}) => verdict.valid

\* C8 witness: a contact failed validation and the call is over
C8_Witness ==
    /\ op = "contact" /\ pc = "done" /\ ~verdict.valid
    /\ verdict.error = "Invalid email format"

(***************************************************************************)
(* Properties of validate_contact                                          *)
(***************************************************************************)
Validated(name) == pc = "done" /\ op = name

NameErrors == {"Missing required field: name", "Name cannot be empty"}

\* the string consists of whitespace only (the empty string included)
IsBlank(s) == \A i \in 1..Len(s) : s[i] \in {" ", "\t", "\n"}

HasAt(s) == \E i \in 1..Len(s) : s[i] = "@"

NameOk(contact) == "name" \in DOMAIN contact /\ ~IsBlank(contact["name"])

\* the phone cannot be objected to: absent, or at least 5 characters
PhoneOk(contact) == "phone" \notin DOMAIN contact \/ Len(contact["phone"]) >= 5

\* C9: a contact whose name is absent, empty or whitespace only is rejected
\* with a name error, whatever its email and phone are.
C9_NameCheckedFirst ==
    (Validated("validate_contact") /\ ~NameOk(record))
        => /\ ~verdict.valid
           /\ verdict.error \in NameErrors

\* C9 witness: a whitespace name together with an email without '@'
C9_Witness ==
    /\ Validated("validate_contact")
    /\ record = ("name" :> <<" ", " ">>) @@ ("email" :> <<"a">>)
    /\ verdict = Verdict(FALSE, "Name cannot be empty")

\* C10 as stated: with a valid name, an email that is present and has no '@'
\* is rejected, and an email with '@' or no email is accepted.
C10_EmailPresentNeedsAt ==
    (Validated("validate_contact") /\ NameOk(record))
        => /\ ("email" \in DOMAIN record /\ ~HasAt(record["email"]))
                  => verdict = Verdict(FALSE, "Invalid email format")
           /\ (("email" \notin DOMAIN record \/ HasAt(record["email"])) /\ PhoneOk(record))
                  => verdict.valid

\* C10 (amended): with a valid name, an email that is present, not empty and
\* has no '@' is rejected with the email error; the contact is accepted (given
\* no phone problem) if the email has an '@', is absent or is the empty string.
C10_NonEmptyEmailNeedsAt ==
    (Validated("validate_contact") /\ NameOk(record))
        => /\ ( /\ "email" \in DOMAIN record
                /\ record["email"] # <<>>
                /\ ~HasAt(record["email"]) )
                  => verdict = Verdict(FALSE, "Invalid email format")
           /\ ( /\ \/ "email" \notin DOMAIN record
                   \/ record["email"] = <<>>
                   \/ HasAt(record["email"])
                /\ PhoneOk(record) )
                  => verdict = Verdict(TRUE, "None")
           /\ record = ("name" :> <<"A">>) @@ ("email" :> <<"b", "a", "d">>)
                  => ~verdict.valid
           /\ record = ("name" :> <<"A">>) @@ ("email" :> <<"a", "@", "b", ".", "c", "o", "m">>)
                  => verdict.valid

\* C10 witness: {name: 'A', email: 'bad'} has been rejected for its email
C10_Witness ==
    /\ Validated("validate_contact")
    /\ record = ("name" :> <<"A">>) @@ ("email" :> <<"b", "a", "d">>)
    /\ verdict = Verdict(FALSE, "Invalid email format")

\* the email cannot be objected to: absent, or with an '@'
EmailOk(contact) == "email" \notin DOMAIN contact \/ HasAt(contact["email"])

\* C11 as stated: with a valid name and a valid or absent email, a phone that
\* is present and shorter than 5 characters (0 to 4) is rejected with the
\* phone error, and an absent phone or one of at least 5 characters is accepted.
C11_PhonePresentShort ==
    (Validated("validate_contact") /\ NameOk(record) /\ EmailOk(record))
        => /\ ("phone" \in DOMAIN record /\ Len(record["phone"]) < 5)
                  => verdict = Verdict(FALSE, "Phone number too short")
           /\ ("phone" \notin DOMAIN record \/ Len(record["phone"]) >= 5)
                  => verdict = Verdict(TRUE, "None")

\* C11 (amended): with a valid name and a valid or absent email, a phone that
\* is present with 1 to 4 characters is rejected with the phone error; the
\* contact is accepted when the phone is absent, is the empty string or has
\* at least 5 characters.
C11_PhoneNonEmptyShort ==
    (Validated("validate_contact") /\ NameOk(record) /\ EmailOk(record))
        => /\ ("phone" \in DOMAIN record /\ Len(record["phone"]) \in 1..4)
                  => verdict = Verdict(FALSE, "Phone number too short")
           /\ ( \/ "phone" \notin DOMAIN record
                \/ Len(record["phone"]) = 0
                \/ Len(record["phone"]) >= 5 )
                  => verdict = Verdict(TRUE, "None")

\* C11 witness: a phone of 4 characters has been rejected
C11_Witness ==
    /\ Validated("validate_contact")
    /\ record = ("name" :> <<"A">>) @@ ("phone" :> <<"5", "5", "5", "5">>)
    /\ verdict = Verdict(FALSE, "Phone number too short")

(***************************************************************************)
(* Properties of validate_deal                                             *)
(***************************************************************************)
TitleOk(deal) == "title" \in DOMAIN deal /\ deal["title"] # ""
StageOk(deal) == "stage" \in DOMAIN deal /\ deal["stage"] # ""
ValueOf(deal) == IF "value" \in DOMAIN deal THEN deal["value"] ELSE 0
PriorityBad(deal) == "priority" \in DOMAIN deal /\ deal["priority"] \notin {"", "Low", "Medium", "High"}

\* C12: the rules are checked in the order title, stage, value, priority and
\* the first one that fails is reported, whatever the later fields are.
C12_DealRuleOrder ==
    Validated("validate_deal")
        => /\ ~TitleOk(record)
                  => verdict = Verdict(FALSE, "Missing required field: title")
           /\ (TitleOk(record) /\ ~StageOk(record))
                  => verdict = Verdict(FALSE, "Missing required field: stage")
           /\ (TitleOk(record) /\ StageOk(record) /\ ValueOf(record) < 0)
                  => verdict = Verdict(FALSE, "Deal value cannot be negative")

\* C12 witness: no stage, a negative value and an invalid priority: the stage
\* is reported
C12_Witness ==
    /\ Validated("validate_deal")
    /\ TitleOk(record) /\ "stage" \notin DOMAIN record
    /\ ValueOf(record) < 0 /\ PriorityBad(record)
    /\ verdict = Verdict(FALSE, "Missing required field: stage")

\* C13: with title and stage not empty, the deal is rejected with the value
\* error if and only if its value, 0 when absent, is less than 0.
C13_NegativeValueRejected ==
    (Validated("validate_deal") /\ TitleOk(record) /\ StageOk(record))
        => /\ (verdict = Verdict(FALSE, "Deal value cannot be negative"))
                  <=> (ValueOf(record) < 0)
           /\ ValueOf(record) >= 0
                  => verdict.error \in {"None", "Invalid priority"}

\* C13 witness: value -1 has been rejected for its value
C13_Witness ==
    /\ Validated("validate_deal")
    /\ record = ("title" :> "T") @@ ("stage" :> "Lead") @@ ("value" :> -1)
    /\ verdict = Verdict(FALSE, "Deal value cannot be negative")

DealOkUpToPriority(deal) == TitleOk(deal) /\ StageOk(deal) /\ ValueOf(deal) >= 0

\* C14 as stated: with title, stage and value in order, a deal whose priority
\* field is present is accepted only when the priority is exactly Low, Medium
\* or High and is rejected with the priority error otherwise; a deal without
\* a priority field is accepted.
C14_PriorityPresentInSet ==
    (Validated("validate_deal") /\ DealOkUpToPriority(record))
        => /\ ("priority" \in DOMAIN record /\ record["priority"] \in {"Low", "Medium", "High"})
                  => verdict = Verdict(TRUE, "None")
           /\ ("priority" \in DOMAIN record /\ record["priority"] \notin {"Low", "Medium", "High"})
                  => verdict = Verdict(FALSE, "Invalid priority")
           /\ "priority" \notin DOMAIN record
                  => verdict = Verdict(TRUE, "None")

\* C14 (amended): with title, stage and value in order, a deal whose priority
\* is present and not the empty string is accepted only when the priority is
\* exactly Low, Medium or High and is rejected with the priority error
\* otherwise; a deal whose priority is absent or the empty string is accepted.
C14_PriorityNonEmptyInSet ==
    (Validated("validate_deal") /\ DealOkUpToPriority(record))
        => /\ ("priority" \in DOMAIN record /\ record["priority"] \in {"Low", "Medium", "High"})
                  => verdict = Verdict(TRUE, "None")
           /\ ("priority" \in DOMAIN record /\ record["priority"] \notin {"", "Low", "Medium", "High"})
                  => verdict = Verdict(FALSE, "Invalid priority")
           /\ ("priority" \notin DOMAIN record \/ record["priority"] = "")
                  => verdict = Verdict(TRUE, "None")

\* C14 witness: priority 'Urgent' has been rejected
C14_Witness ==
    /\ Validated("validate_deal")
    /\ record = ("title" :> "T") @@ ("stage" :> "Lead") @@ ("priority" :> "Urgent")
    /\ verdict = Verdict(FALSE, "Invalid priority")

\* the record without the fields the validators do not read
Restrict(rec, keys) == [k \in DOMAIN rec \cap keys |-> rec[k]]

C15_UnknownFieldsIgnored ==
    /\ Validated("validate_contact")
           => verdict = validate_contact(Restrict(record, {"name", "email", "phone"}))
    /\ Validated("validate_deal")
           => verdict = validate_deal(Restrict(record, {"title", "stage", "value", "priority"}))

\* C15: the validators leave the record passed to them unchanged, and the
\* verdict for a record is the verdict for the same record without the fields
\* the validators do not know.
C15_RecordUntouched ==
    /\ []C15_UnknownFieldsIgnored
    /\ [][record' = record]_vars

\* C15 witness: a contact with the unknown field company has been accepted
C15_Witness ==
    /\ Validated("validate_contact")
    /\ "company" \in DOMAIN record
    /\ verdict = Verdict(TRUE, "None")

(***************************************************************************)
(* Pipeline reports (src/examples/pipeline_report.py).                     *)
(*                                                                         *)
(* Every report function is a pure function of the list of deals: it       *)
(* prints lines and returns a value.  The list is drawn from the inputs    *)
(* and the function is applied to it.                                      *)
(*   a dict built by the function   the sequence of its items in insertion *)
(*                                  order, [key, count, value]             *)
(*   a float quotient n / d         the exact fraction [num |-> n,         *)
(*                                  den |-> d] (rounding is left out)      *)
(***************************************************************************)
Ratio(n, d) == [num |-> n, den |-> d]

\* sum(...) of a sequence of integers
RECURSIVE Sum(_)
Sum(s) == IF s = <<>> THEN 0 ELSE s[1] + Sum(Tail(s))

\* [d.get('value', 0) for d in deals]
ValuesOf(ds) == [i \in DOMAIN ds |-> Get(ds[i], "value", 0)]

\* faulty variant of AddToGroup: the value of the group is assigned, not added to
AddToGroupOverwrite(groups, key, value) ==
    IF \E j \in DOMAIN groups : groups[j].key = key
    THEN [j \in DOMAIN groups |->
             IF groups[j].key = key
             THEN [key |-> key, count |-> groups[j].count + 1, value |-> value]
             ELSE groups[j]]
    ELSE Append(groups, [key |-> key, count |-> 1, value |-> value])

\* if key not in groups: groups[key] = {'count': 0, 'value': 0}
\* groups[key]['count'] += 1; groups[key]['value'] += value
AddToGroup(groups, key, value) ==
    IF \E j \in DOMAIN groups : groups[j].key = key
    THEN [j \in DOMAIN groups |->
             IF groups[j].key = key
             THEN [key |-> key, count |-> groups[j].count + 1,
                   value |-> groups[j].value + value]
             ELSE groups[j]]
    ELSE Append(groups, [key |-> key, count |-> 1, value |-> value])

\* the loop `for deal in deals` that fills the dict groups, keyed by
\* deal.get(field, default)
RECURSIVE GroupInto(_, _, _, _)
GroupInto(groups, ds, field, default) ==
    IF ds = <<>> THEN groups
    ELSE LET deal == ds[Len(ds)]
         IN  AddToGroup(GroupInto(groups, SubSeq(ds, 1, Len(ds) - 1), field, default),
                        Get(deal, field, default), Get(deal, "value", 0))

\* the dict is created empty in the call and then filled by the loop
GroupBy(ds, field, default) == GroupInto(<<>>, ds, field, default)

\* faulty variant of NewStages: the dict of the previous call is kept
KeptStages == IF returned.t = "dict" THEN returned.v ELSE <<>>

\* stages = {}
NewStages == <<>>

\* one step of sorted(..., key=value, reverse=True): x goes behind every
\* item whose value is not smaller, so items of equal value keep their order
InsertByValue(items, x) ==
    LET before == Cardinality({j \in DOMAIN items : items[j].value >= x.value})
    IN  SubSeq(items, 1, before) \o <<x>> \o SubSeq(items, before + 1, Len(items))

\* sorted(stages.items(), key=lambda x: x[1]['value'], reverse=True)
RECURSIVE SortedByValueReverse(_)
SortedByValueReverse(items) ==
    IF items = <<>> THEN <<>>
    ELSE InsertByValue(SortedByValueReverse(SubSeq(items, 1, Len(items) - 1)),
                       items[Len(items)])

\* faulty variant of percentage: the share of the deals, not of the value
percentage_of_count(data, total_value) ==
    IF total_value > 0 THEN Ratio(data.count * 100, total_value) ELSE Ratio(0, 1)

\* (data['value'] / total_value * 100) if total_value > 0 else 0
percentage(data, total_value) ==
    IF total_value > 0 THEN Ratio(data.value * 100, total_value) ELSE Ratio(0, 1)

\* pipeline_by_stage(deals): one line per stage in the order of
\* sorted_stages, then the TOTAL line; the dict stages is returned
pipeline_by_stage(ds) ==
    LET stages == GroupInto(NewStages, ds, "stage", "Unknown")
        sorted_stages == SortedByValueReverse(stages)
        total_value == Sum([j \in DOMAIN stages |-> stages[j].value])
        total_count == Sum([j \in DOMAIN stages |-> stages[j].count])
    IN  [printed |->
             [j \in DOMAIN sorted_stages |->
                 [label |-> sorted_stages[j].key,
                  count |-> sorted_stages[j].count,
                  value |-> sorted_stages[j].value,
                  percentage |-> percentage(sorted_stages[j], total_value)]]
             \o <<[label |-> "TOTAL", count |-> total_count, value |-> total_value]>>,
         returned |-> PyDict(stages)]

\* d.get('stage') == stage
StageIs(deal, stage) == "stage" \in DOMAIN deal /\ deal["stage"] = stage

\* faulty variant of win_rate: won over all deals
win_rate_of_total(won, lost, total) ==
    IF won + lost > 0 THEN Ratio(won * 100, total) ELSE Ratio(0, 1)

\* (won / (won + lost) * 100) if (won + lost) > 0 else 0
win_rate(won, lost, total) ==
    IF won + lost > 0 THEN Ratio(won * 100, won + lost) ELSE Ratio(0, 1)

\* win_rate_analysis(deals)
win_rate_analysis(ds) ==
    LET won_deals == SelectSeq(ds, LAMBDA d : StageIs(d, "Closed Won"))
        lost_deals == SelectSeq(ds, LAMBDA d : StageIs(d, "Closed Lost"))
        active_deals == SelectSeq(ds, LAMBDA d : ~StageIs(d, "Closed Won")
                                                 /\ ~StageIs(d, "Closed Lost"))
        total == Len(ds)
        won == Len(won_deals)
        lost == Len(lost_deals)
        active == total - won - lost
    IN  [printed |->
             <<[label |-> "Total Deals", count |-> total],
               [label |-> "Won", count |-> won, value |-> Sum(ValuesOf(won_deals))],
               [label |-> "Lost", count |-> lost, value |-> Sum(ValuesOf(lost_deals))],
               [label |-> "Active", count |-> active,
                value |-> Sum(ValuesOf(active_deals))],
               [label |-> "Win Rate", percentage |-> win_rate(won, lost, total)]>>,
         returned |-> PyDict([total |-> total, won |-> won, lost |-> lost,
                              active |-> active,
                              win_rate |-> win_rate(won, lost, total)])]

\* the lists of at most MaxDeals deals drawn from a set of deals
DealLists(dealSet) == UNION {[1..k -> dealSet] : k \in 0..MaxDeals}

\* deals as the stage reports read them: stage and value, each optional
ReportStages == {"Negotiation", "Closed Won", "Closed Lost"}
ReportValues == {-1, 2}
StageDeals == {s @@ v : s \in Optional("stage", ReportStages),
                        v \in Optional("value", ReportValues)}

\* state before a report function is called on a list of deals and a list
\* of contacts
InitReportWith(inputs, contactInputs) ==
    /\ pc = "call"
    /\ op = "none"
    /\ record = EmptyDict
    /\ verdict = Verdict(FALSE, "")
    /\ max_retries = 0
    /\ backoff_factor = 0
    /\ attempt = 0
    /\ outcomes = <<>>
    /\ sleeps = <<>>
    /\ result = PyNone
    /\ ret = PyNone
    /\ deals \in inputs
    /\ contacts \in contactInputs
    /\ printed = <<>>
    /\ returned = PyNone
    /\ sent = <<>>
    /\ contact_id = PyNone
    /\ deal_id = PyNone

\* state before a report function is called on a list of deals
InitReport(inputs) == InitReportWith(inputs, {<<>>})

\* the call name(deals): out is what it prints and returns
Report(name, out) ==
    /\ pc = "call"
    /\ op' = name
    /\ printed' = out.printed
    /\ returned' = out.returned
    /\ pc' = "done"
    /\ UNCHANGED <<deals, contacts>>
    /\ UNCHANGED requestVars
    /\ UNCHANGED mainVars

PipelineByStage == Report("pipeline_by_stage", pipeline_by_stage(deals))

WinRateAnalysis == Report("win_rate_analysis", win_rate_analysis(deals))

\* a second call pipeline_by_stage(deals) after the first has returned
PipelineByStageAgain ==
    /\ pc = "done"
    /\ op = "pipeline_by_stage"
    /\ printed' = pipeline_by_stage(deals).printed
    /\ returned' = pipeline_by_stage(deals).returned
    /\ pc' = "again"
    /\ UNCHANGED <<op, deals, contacts>>
    /\ UNCHANGED requestVars
    /\ UNCHANGED mainVars

InitStage == InitReport(DealLists(StageDeals))

NextStage == PipelineByStage \/ WinRateAnalysis \/ PipelineByStageAgain

SpecStage == InitStage /\ [][NextStage]_vars

\* the report function name has run
Reported(name) == pc = "done" /\ op = name

(***************************************************************************)
(* Properties of pipeline_by_stage and win_rate_analysis                   *)
(***************************************************************************)
\* the indices of the deals that satisfy P
DealsWhere(P(_)) == {i \in DOMAIN deals : P(deals[i])}

\* the fraction r equals n / d, for d # 0
RatioIs(r, n, d) == r.den # 0 /\ r.num * d = n * r.den

\* the items of a sequence have non-increasing values
NonIncreasing(items) ==
    \A j, k \in DOMAIN items : j < k => items[j].value >= items[k].value

\* the index of the first deal that falls into the group key
FirstOf(field, default, key) ==
    CHOOSE i \in DOMAIN deals :
        /\ Get(deals[i], field, default) = key
        /\ \A h \in 1..(i - 1) : Get(deals[h], field, default) # key

\* C16: the values of the stage buckets of pipeline_by_stage add up to the
\* sum of the deal values (an absent value counts 0), the counts of the
\* buckets add up to the number of deals, and the deals without a stage are
\* counted in the bucket 'Unknown'.
C16_BucketsConserve ==
    Reported("pipeline_by_stage") =>
        LET stages == returned.v
            unknown == DealsWhere(LAMBDA d : Get(d, "stage", "Unknown") = "Unknown")
        IN  /\ Sum([j \in DOMAIN stages |-> stages[j].value]) = Sum(ValuesOf(deals))
            /\ Sum([j \in DOMAIN stages |-> stages[j].count]) = Len(deals)
            /\ \A i \in DOMAIN deals :
                   "stage" \notin DOMAIN deals[i] =>
                       \E j \in DOMAIN stages :
                           /\ stages[j].key = "Unknown"
                           /\ stages[j].count = Cardinality(unknown)

\* C16 witness: of three deals the two without a stage, of values -1 and 2,
\* are in the bucket 'Unknown'
C16_Witness ==
    /\ Reported("pipeline_by_stage")
    /\ Len(deals) = 3
    /\ \E j \in DOMAIN returned.v :
           returned.v[j] = [key |-> "Unknown", count |-> 2, value |-> 1]
    /\ Len(returned.v) = 2

\* C17 as stated: the groups pipeline_by_stage returns are ordered by
\* non-increasing value, and the percentage of a group is value / total * 100
\* unless the total is 0, where it is 0.
C17_ReturnsSortedGroups ==
    Reported("pipeline_by_stage") =>
        LET total == Sum(ValuesOf(deals))
        IN  /\ NonIncreasing(returned.v)
            /\ \A j \in 1..(Len(printed) - 1) :
                   IF total = 0 THEN printed[j].percentage.num = 0
                   ELSE RatioIs(printed[j].percentage, printed[j].value * 100, total)

\* C17: pipeline_by_stage prints its stage groups ordered by non-increasing
\* value and then the grand totals; the percentage of a group is
\* value / total * 100 when the total is positive and 0 otherwise; the value
\* returned is the dict of the groups in the order in which the stages first
\* occur in the input, without the totals.
C17_PrintsSortedGroups ==
    Reported("pipeline_by_stage") =>
        LET total == Sum(ValuesOf(deals))
            stages == returned.v
            n == Len(printed) - 1
            lines == SubSeq(printed, 1, n)
        IN  /\ NonIncreasing(lines)
            /\ printed[n + 1] = [label |-> "TOTAL", count |-> Len(deals), value |-> total]
            /\ \A j \in 1..n :
                   IF total > 0
                   THEN RatioIs(lines[j].percentage, lines[j].value * 100, total)
                   ELSE lines[j].percentage.num = 0
            /\ n = Len(stages)
            /\ \A k \in DOMAIN stages :
                   \E j \in 1..n :
                       /\ lines[j].label = stages[k].key
                       /\ lines[j].count = stages[k].count
                       /\ lines[j].value = stages[k].value
            /\ \A j, k \in DOMAIN stages :
                   j < k => FirstOf("stage", "Unknown", stages[j].key)
                                < FirstOf("stage", "Unknown", stages[k].key)

\* C17 witness: the group returned second is printed first, the total is
\* positive
C17_Witness ==
    /\ Reported("pipeline_by_stage")
    /\ Len(returned.v) = 2
    /\ returned.v[1].value < returned.v[2].value
    /\ printed[1].label = returned.v[2].key
    /\ printed[3].value > 0

\* C18: win_rate_analysis counts as won the deals of stage 'Closed Won', as
\* lost those of stage 'Closed Lost', active is total - won - lost, win_rate
\* is 0 when won + lost = 0 and won / (won + lost) * 100 otherwise; one
\* Closed Won, one Closed Lost and one Negotiation deal give total 3, won 1,
\* lost 1, active 1, win_rate 50.
C18_WinRate ==
    Reported("win_rate_analysis") =>
        LET r == returned.v
            won == Cardinality(DealsWhere(LAMBDA d : Get(d, "stage", "") = "Closed Won"))
            lost == Cardinality(DealsWhere(LAMBDA d : Get(d, "stage", "") = "Closed Lost"))
            other == Cardinality(DealsWhere(LAMBDA d : Get(d, "stage", "") = "Negotiation"))
        IN  /\ r.total = Len(deals)
            /\ r.won = won
            /\ r.lost = lost
            /\ r.active = r.total - r.won - r.lost
            /\ IF won + lost = 0 THEN r.win_rate.num = 0
               ELSE RatioIs(r.win_rate, won * 100, won + lost)
            /\ (Len(deals) = 3 /\ won = 1 /\ lost = 1 /\ other = 1) =>
                   /\ r.total = 3 /\ r.won = 1 /\ r.lost = 1 /\ r.active = 1
                   /\ RatioIs(r.win_rate, 50, 1)

\* C18 witness: the analysis of a Closed Won, a Closed Lost and a
\* Negotiation deal has returned win_rate 50
C18_Witness ==
    /\ Reported("win_rate_analysis")
    /\ [i \in DOMAIN deals |-> Get(deals[i], "stage", "")]
           = <<"Closed Won", "Closed Lost", "Negotiation">>
    /\ returned.v.active = 1
    /\ RatioIs(returned.v.win_rate, 50, 1)

(***************************************************************************)
(* priority_breakdown and average_deal_metrics                             *)
(***************************************************************************)
\* faulty variant of priority_order: the priority Urgent is listed too
priority_order_urgent == <<"High", "Medium", "Low", "Not Set", "Urgent">>

\* faulty variant of priority_order: Low is listed before Medium
priority_order_low_first == <<"High", "Low", "Medium", "Not Set">>

\* priority_order = ['High', 'Medium', 'Low', 'Not Set']
priority_order == <<"High", "Medium", "Low", "Not Set">>

\* priority_breakdown(deals): one line for every priority of priority_order
\* that is a key of the dict priorities; nothing is returned
priority_breakdown(ds) ==
    LET priorities == GroupBy(ds, "priority", "Not Set")
        present == SelectSeq(priority_order,
                             LAMBDA p : \E j \in DOMAIN priorities : priorities[j].key = p)
        data(p) == priorities[CHOOSE j \in DOMAIN priorities : priorities[j].key = p]
    IN  [printed |-> [j \in DOMAIN present |->
                         [label |-> present[j],
                          count |-> data(present[j]).count,
                          value |-> data(present[j]).value]],
         returned |-> PyNone]

\* one step of sorted(values): x goes behind every value that is not larger
InsertAscending(values, x) ==
    LET before == Cardinality({j \in DOMAIN values : values[j] <= x})
    IN  SubSeq(values, 1, before) \o <<x>> \o SubSeq(values, before + 1, Len(values))

\* sorted([d.get('value', 0) for d in deals])
RECURSIVE Sorted(_)
Sorted(values) ==
    IF values = <<>> THEN <<>>
    ELSE InsertAscending(Sorted(SubSeq(values, 1, Len(values) - 1)), values[Len(values)])

\* faulty variant of MaxIndex: a later deal of equal value replaces the maximum
RECURSIVE MaxIndexLast(_)
MaxIndexLast(ds) ==
    IF Len(ds) = 1 THEN 1
    ELSE LET best == MaxIndexLast(SubSeq(ds, 1, Len(ds) - 1))
         IN  IF Get(ds[Len(ds)], "value", 0) >= Get(ds[best], "value", 0)
             THEN Len(ds) ELSE best

\* max(deals, key=lambda x: x.get('value', 0)): the maximum is replaced only
\* by a deal of strictly larger value; the index of the deal max returns
RECURSIVE MaxIndex(_)
MaxIndex(ds) ==
    IF Len(ds) = 1 THEN 1
    ELSE LET best == MaxIndex(SubSeq(ds, 1, Len(ds) - 1))
         IN  IF Get(ds[Len(ds)], "value", 0) > Get(ds[best], "value", 0)
             THEN Len(ds) ELSE best

\* faulty variant of median_idx: the lower of the two middle indices
median_idx_lower(values) == (Len(values) - 1) \div 2

\* median_idx = len(values) // 2, a 0-based index
median_idx(values) == Len(values) \div 2

\* average_deal_metrics(deals): `if not deals: print("No deals found"); return`,
\* else the average and the median are printed and then the largest deal;
\* max_deal['title'] raises KeyError for a deal without a title
average_deal_metrics(ds) ==
    IF ds = <<>>
    THEN [printed |-> <<[label |-> "No deals found"]>>, returned |-> PyNone]
    ELSE LET total_value == Sum(ValuesOf(ds))
             avg_value == Ratio(total_value, Len(ds))
             values == Sorted(ValuesOf(ds))
             median_value == values[median_idx(values) + 1]
             max_deal == ds[MaxIndex(ds)]
             lines == <<[label |-> "Average Deal Size", value |-> avg_value],
                        [label |-> "Median Deal Size", value |-> median_value]>>
         IN  IF "title" \notin DOMAIN max_deal
             THEN [printed |-> lines, returned |-> Raise("KeyError")]
             ELSE [printed |-> Append(lines,
                                      [label |-> "Largest Deal",
                                       title |-> max_deal["title"],
                                       value |-> Get(max_deal, "value", 0),
                                       stage |-> Get(max_deal, "stage", "Unknown")]),
                   returned |-> PyNone]

\* deals as priority_breakdown reads them: priority and value, each optional
ReportPriorities == {"High", "Medium", "Low", "Urgent"}
PriorityDeals == {p @@ v : p \in Optional("priority", ReportPriorities),
                           v \in Optional("value", ReportValues)}

\* deals as average_deal_metrics reads them: title and value, each optional
ReportTitles == {"A", "B"}
MetricValues == {1, 2}
MetricDeals == {t @@ v : t \in Optional("title", ReportTitles),
                         v \in Optional("value", MetricValues)}

PriorityBreakdown == Report("priority_breakdown", priority_breakdown(deals))

InitPriority == InitReport(DealLists(PriorityDeals))

NextPriority == PriorityBreakdown

SpecPriority == InitPriority /\ [][NextPriority]_vars

AverageDealMetrics == Report("average_deal_metrics", average_deal_metrics(deals))

InitMetrics == InitReport(DealLists(MetricDeals))

NextMetrics == AverageDealMetrics

SpecMetrics == InitMetrics /\ [][NextMetrics]_vars

(***************************************************************************)
(* Properties of priority_breakdown and average_deal_metrics               *)
(***************************************************************************)
\* the place of a label in the order High, Medium, Low, Not Set
Rank(label) ==
    CASE label = "High" -> 1
      [] label = "Medium" -> 2
      [] label = "Low" -> 3
      [] label = "Not Set" -> 4
      [] OTHER -> 0

\* C19: priority_breakdown prints buckets in the order High, Medium, Low,
\* Not Set only, prints no bucket for a priority that no input deal has, and
\* counts a deal without a priority in the bucket 'Not Set'.
C19_PriorityOrder ==
    Reported("priority_breakdown") =>
        LET having(label) == DealsWhere(LAMBDA d : Get(d, "priority", "Not Set") = label)
        IN  /\ \A j \in DOMAIN printed : Rank(printed[j].label) > 0
            /\ \A j, k \in DOMAIN printed :
                   j < k => Rank(printed[j].label) < Rank(printed[k].label)
            /\ \A j \in DOMAIN printed :
                   /\ having(printed[j].label) # {}
                   /\ printed[j].count = Cardinality(having(printed[j].label))
            /\ \A i \in DOMAIN deals :
                   "priority" \notin DOMAIN deals[i] =>
                       \E j \in DOMAIN printed :
                           /\ printed[j].label = "Not Set"
                           /\ printed[j].count = Cardinality(having("Not Set"))
                           /\ i \in having("Not Set")

\* C19 witness: deals without a priority, of priority Low and of priority
\* Medium, in this order, are printed as Medium, Low, Not Set
C19_Witness ==
    /\ Reported("priority_breakdown")
    /\ Len(deals) = 3
    /\ "priority" \notin DOMAIN deals[1]
    /\ Get(deals[2], "priority", "") = "Low"
    /\ Get(deals[3], "priority", "") = "Medium"
    /\ [j \in DOMAIN printed |-> printed[j].label] = <<"Medium", "Low", "Not Set">>

AtSortedIndex(k) ==
    LET v == ValuesOf(deals)
    IN  {m \in {v[i] : i \in DOMAIN v} :
            /\ Cardinality({i \in DOMAIN v : v[i] < m}) <= k
            /\ k < Cardinality({i \in DOMAIN v : v[i] <= m})}

\* a non-empty list of an even number of deals has been analysed
EvenMetrics ==
    /\ Reported("average_deal_metrics")
    /\ deals # <<>>
    /\ Len(deals) % 2 = 0

\* C21 as stated: for an even number of deals the median printed by
\* average_deal_metrics is the lower of the two middle values of the
\* ascending values.
C21_LowerMiddle ==
    EvenMetrics => printed[2].value \in AtSortedIndex(Len(deals) \div 2 - 1)

\* C21: for an even number of deals the median printed by
\* average_deal_metrics is the upper of the two middle values of the
\* ascending values (0-based index count / 2), never smaller than the lower
\* one and not the average of the two.
C21_UpperMiddle ==
    EvenMetrics =>
        LET m == printed[2].value
            k == Len(deals) \div 2
        IN  /\ printed[2].label = "Median Deal Size"
            /\ m \in AtSortedIndex(k)
            /\ \A low \in AtSortedIndex(k - 1) :
                   /\ low <= m
                   /\ low < m => 2 * m # low + m

\* C21 witness: of two deals of values 2 and 1 the median printed is 2
C21_Witness ==
    /\ EvenMetrics
    /\ ValuesOf(deals) = <<2, 1>>
    /\ printed[2].value = 2

(***************************************************************************)
(* forecast_analysis                                                       *)
(*                                                                         *)
(* The probabilities are kept as integer percents and the weighted         *)
(* forecast as the exact fraction sum(value * percent) / 100.              *)
(***************************************************************************)
\* stage_probability = {'Lead': 0.1, 'Qualified': 0.25, 'Proposal Sent': 0.5,
\*                      'Negotiation': 0.75, 'Closed Won': 1.0, 'Closed Lost': 0.0}
stage_probability ==
    ("Lead" :> 10) @@ ("Qualified" :> 25) @@ ("Proposal Sent" :> 50)
        @@ ("Negotiation" :> 75) @@ ("Closed Won" :> 100) @@ ("Closed Lost" :> 0)

DefaultProbability == 30   \* stage_probability.get(stage, 0.3)

\* faulty variant of probability: a stage outside the table weighs nothing
probability_no_default(stage) == Get(stage_probability, stage, 0)

\* probability = stage_probability.get(stage, 0.3)
probability(stage) == Get(stage_probability, stage, DefaultProbability)

\* faulty variant of IsActive: a deal without a stage is not active
IsActiveStaged(deal) ==
    "stage" \in DOMAIN deal /\ deal["stage"] \notin {"Closed Won", "Closed Lost"}

\* stage not in ['Closed Won', 'Closed Lost'], for stage = deal.get('stage', 'Unknown')
IsActive(deal) == Get(deal, "stage", "Unknown") \notin {"Closed Won", "Closed Lost"}

\* forecast_analysis(deals): the loop adds value to active_pipeline and
\* value * probability to weighted_pipeline for every active deal; both are
\* printed and nothing is returned
forecast_analysis(ds) ==
    LET active_deals == SelectSeq(ds, IsActive)
        active_pipeline == Sum(ValuesOf(active_deals))
        weighted_pipeline ==
            Sum([i \in DOMAIN active_deals |->
                    Get(active_deals[i], "value", 0)
                        * probability(Get(active_deals[i], "stage", "Unknown"))])
    IN  [printed |-> <<[label |-> "Active Pipeline", value |-> active_pipeline],
                       [label |-> "Weighted Forecast",
                        value |-> Ratio(weighted_pipeline, 100)]>>,
         returned |-> PyNone]

\* deals as forecast_analysis reads them: every stage of the table, a stage
\* outside it or none, and a value or none
ForecastStages ==
    {"Lead", "Qualified", "Proposal Sent", "Negotiation", "Closed Won",
     "Closed Lost", "On Hold"}
ForecastValues == {4}
ForecastDeals == {s @@ v : s \in Optional("stage", ForecastStages),
                           v \in Optional("value", ForecastValues)}

\* the three deals of the end-to-end scenario
ScenarioDeals ==
    <<("stage" :> "Closed Won") @@ ("value" :> 25000),
      ("stage" :> "Closed Lost") @@ ("value" :> 10000),
      ("stage" :> "Negotiation") @@ ("value" :> 45000)>>

ForecastAnalysis == Report("forecast_analysis", forecast_analysis(deals))

InitForecast == InitReport(DealLists(ForecastDeals) \cup {ScenarioDeals})

NextForecast == ForecastAnalysis

SpecForecast == InitForecast /\ [][NextForecast]_vars

\* the three sections that read stage and value, called on the same deals
NextStageSections == NextStage \/ ForecastAnalysis

SpecStageSections == InitStage /\ [][NextStageSections]_vars

(***************************************************************************)
(* Properties of forecast_analysis                                         *)
(***************************************************************************)
\* the percent the forecast is to give a deal: the four open stages of the
\* table, 30 for any other or absent stage
ForecastPercent(deal) ==
    LET stage == Get(deal, "stage", "")
    IN  CASE stage = "Lead" -> 10
          [] stage = "Qualified" -> 25
          [] stage = "Proposal Sent" -> 50
          [] stage = "Negotiation" -> 75
          [] OTHER -> 30

\* the sum of the numbers f[i] for the indices i in the set
RECURSIVE SumOver(_, _)
SumOver(indices, f) ==
    IF indices = {} THEN 0
    ELSE LET i == CHOOSE j \in indices : TRUE
         IN  f[i] + SumOver(indices \ {i}, f)

\* C22: forecast_analysis ignores the deals of stage 'Closed Won' and
\* 'Closed Lost'; over the others the active pipeline is the sum of the
\* values and the weighted forecast the sum of value * probability, with
\* Lead 0.1, Qualified 0.25, Proposal Sent 0.5, Negotiation 0.75 and 0.3 for
\* any other or absent stage; the scenario deals give 45000 and 33750.
C22_Forecast ==
    Reported("forecast_analysis") =>
        LET open == DealsWhere(LAMBDA d : Get(d, "stage", "") \notin {"Closed Won", "Closed Lost"})
        IN  /\ printed[1].value = SumOver(open, ValuesOf(deals))
            /\ RatioIs(printed[2].value,
                       SumOver(open, [i \in DOMAIN deals |->
                                         Get(deals[i], "value", 0) * ForecastPercent(deals[i])]),
                       100)
            /\ deals = ScenarioDeals =>
                   /\ printed[1].value = 45000
                   /\ RatioIs(printed[2].value, 33750, 1)

\* C22 witness: the forecast of the scenario deals has printed 45000 and 33750
C22_Witness ==
    /\ Reported("forecast_analysis")
    /\ deals = ScenarioDeals
    /\ printed[1] = [label |-> "Active Pipeline", value |-> 45000]
    /\ RatioIs(printed[2].value, 33750, 1)

(***************************************************************************)
(* contact_engagement                                                      *)
(*                                                                         *)
(* Ids are strings, '' being the empty (falsy) id.  The dict companies is  *)
(* the sequence of its items [key, count] in insertion order.              *)
(***************************************************************************)
\* faulty variant of contact_ids_with_deals: an empty contact_id counts too
contact_ids_with_deals_any(ds) ==
    {ds[i]["contact_id"] : i \in {j \in DOMAIN ds : "contact_id" \in DOMAIN ds[j]}}

\* set(d.get('contact_id') for d in deals if d.get('contact_id'))
contact_ids_with_deals(ds) ==
    {ds[i]["contact_id"] :
         i \in {j \in DOMAIN ds : "contact_id" \in DOMAIN ds[j] /\ ds[j]["contact_id"] # ""}}

\* faulty variant of engagement_rate: the division is not guarded
engagement_rate_unguarded(engaged_contacts, total_contacts) ==
    Ratio(engaged_contacts * 100, total_contacts)

\* (engaged_contacts / total_contacts * 100) if total_contacts > 0 else 0
engagement_rate(engaged_contacts, total_contacts) ==
    IF total_contacts > 0 THEN Ratio(engaged_contacts * 100, total_contacts)
    ELSE Ratio(0, 1)

\* if company not in companies: companies[company] = 0
\* companies[company] += 1
AddCompany(companies, company) ==
    IF \E j \in DOMAIN companies : companies[j].key = company
    THEN [j \in DOMAIN companies |->
             IF companies[j].key = company
             THEN [key |-> company, count |-> companies[j].count + 1]
             ELSE companies[j]]
    ELSE Append(companies, [key |-> company, count |-> 1])

\* the loop `for contact in contacts` that fills the dict companies
RECURSIVE CountCompanies(_)
CountCompanies(cs) ==
    IF cs = <<>> THEN <<>>
    ELSE AddCompany(CountCompanies(SubSeq(cs, 1, Len(cs) - 1)),
                    Get(cs[Len(cs)], "company", "Unknown"))

\* one step of sorted(..., key=count, reverse=True): x goes behind every
\* item whose count is not smaller, so items of equal count keep their order
InsertByCount(items, x) ==
    LET before == Cardinality({j \in DOMAIN items : items[j].count >= x.count})
    IN  SubSeq(items, 1, before) \o <<x>> \o SubSeq(items, before + 1, Len(items))

\* sorted(companies.items(), key=lambda x: x[1], reverse=True)
RECURSIVE SortedByCountReverse(_)
SortedByCountReverse(items) ==
    IF items = <<>> THEN <<>>
    ELSE InsertByCount(SortedByCountReverse(SubSeq(items, 1, Len(items) - 1)),
                       items[Len(items)])

\* items[:n]
Slice(items, n) == SubSeq(items, 1, IF Len(items) < n THEN Len(items) ELSE n)

\* contact_engagement(contacts, deals): three summary lines, then one line
\* for each of the first five of sorted_companies; nothing is returned
contact_engagement(cs, ds) ==
    LET total_contacts == Len(cs)
        engaged_contacts == Cardinality(contact_ids_with_deals(ds))
        sorted_companies == SortedByCountReverse(CountCompanies(cs))
        top == Slice(sorted_companies, TopCompanies)
    IN  [printed |->
             <<[label |-> "Total Contacts", count |-> total_contacts],
               [label |-> "With Active Deals", count |-> engaged_contacts],
               [label |-> "Engagement Rate",
                percentage |-> engagement_rate(engaged_contacts, total_contacts)]>>
             \o [j \in DOMAIN top |-> [label |-> top[j].key, count |-> top[j].count]],
         returned |-> PyNone]

\* deals as contact_engagement reads them: contact_id absent, empty, the id
\* of the first contact or an id no contact has
EngagementDeals == Optional("contact_id", {"", "c1", "c9"})

\* ids of the contacts, by position in the list
ContactIds == <<"c1", "c2", "c3", "c4", "c5", "c6", "c7", "c8">>

\* contacts of the given companies ("" stands for no company field), with
\* the ids of their positions
ContactsOf(companyNames) ==
    [i \in DOMAIN companyNames |->
        IF companyNames[i] = "" THEN "id" :> ContactIds[i]
        ELSE ("id" :> ContactIds[i]) @@ ("company" :> companyNames[i])]

\* lists of contacts: up to MaxContacts contacts of the companies A, F or
\* none, alone or behind five contacts of the companies A to E
CompanyTails == UNION {[1..k -> {"", "A", "F"}] : k \in 0..MaxContacts}
ContactLists ==
    {ContactsOf(t) : t \in CompanyTails}
        \cup {ContactsOf(<<"A", "B", "C", "D", "E">> \o t) : t \in CompanyTails}

ContactEngagement == Report("contact_engagement", contact_engagement(contacts, deals))

InitEngagement == InitReportWith(DealLists(EngagementDeals), ContactLists)

NextEngagement == ContactEngagement

SpecEngagement == InitEngagement /\ [][NextEngagement]_vars

(***************************************************************************)
(* Properties of contact_engagement                                        *)
(***************************************************************************)
\* the company a contact is counted under
CompanyOf(contact) == Get(contact, "company", "Unknown")

\* the number of contacts of a company, and the first of them
ContactCount(company) ==
    Cardinality({i \in DOMAIN contacts : CompanyOf(contacts[i]) = company})
FirstContact(company) ==
    CHOOSE i \in DOMAIN contacts :
        /\ CompanyOf(contacts[i]) = company
        /\ \A h \in 1..(i - 1) : CompanyOf(contacts[h]) # company

\* company a comes before company b in the listing: more contacts, or as
\* many and encountered earlier
RankedBefore(a, b) ==
    \/ ContactCount(a) > ContactCount(b)
    \/ ContactCount(a) = ContactCount(b) /\ FirstContact(a) < FirstContact(b)

\* C23: contact_engagement counts as engaged the distinct non-empty
\* contact_id values of the deals, whether or not a contact has the id; the
\* engagement rate is engaged / number of contacts * 100, 0 without
\* contacts; at most 5 companies are listed, by non-increasing contact count,
\* companies of equal count in the order in which they were first met.
C23_Engagement ==
    Reported("contact_engagement") =>
        LET ids == {Get(deals[i], "contact_id", "") : i \in DOMAIN deals} \ {""}
            lines == SubSeq(printed, 4, Len(printed))
            all == {CompanyOf(contacts[i]) : i \in DOMAIN contacts}
            listed == {lines[j].label : j \in DOMAIN lines}
        IN  /\ printed[1].count = Len(contacts)
            /\ printed[2].count = Cardinality(ids)
            /\ IF contacts = <<>> THEN printed[3].percentage.num = 0
               ELSE RatioIs(printed[3].percentage, Cardinality(ids) * 100, Len(contacts))
            /\ Len(lines) <= 5
            /\ Len(lines) = IF Cardinality(all) < 5 THEN Cardinality(all) ELSE 5
            /\ listed \subseteq all
            /\ \A j \in DOMAIN lines : lines[j].count = ContactCount(lines[j].label)
            /\ \A j, k \in DOMAIN lines :
                   j < k => RankedBefore(lines[j].label, lines[k].label)
            /\ \A a \in listed, b \in all \ listed : RankedBefore(a, b)

\* C23 witness: seven contacts of six companies, F met last but twice, and
\* two engaged ids of which c9 is no contact's: F is listed first, E is left
\* out, the rate is 2 / 7
C23_Witness ==
    /\ Reported("contact_engagement")
    /\ Len(contacts) = 7
    /\ [j \in 1..5 |-> printed[3 + j].label] = <<"F", "A", "B", "C", "D">>
    /\ Len(printed) = 8
    /\ contact_ids_with_deals(deals) = {"c1", "c9"}
    /\ RatioIs(printed[3].percentage, 200, 7)

(***************************************************************************)
(* The six report functions called on the same data: any of them is        *)
(* applied to a list of deals that carry all fields the functions read,    *)
(* and a list of contacts.  Both lists may be empty.                       *)
(***************************************************************************)
SectionDeals ==
    {("title" :> "A") @@ ("stage" :> "Closed Won") @@ ("value" :> 2)
         @@ ("priority" :> "High") @@ ("contact_id" :> "c1"),
     ("title" :> "B") @@ ("stage" :> "Closed Lost") @@ ("value" :> 1)
         @@ ("priority" :> "Urgent") @@ ("contact_id" :> "c9"),
     ("title" :> "C") @@ ("stage" :> "Negotiation") @@ ("value" :> 4),
     ("title" :> "D") @@ ("value" :> 3) @@ ("priority" :> "Low")}

SectionContacts == {ContactsOf(t) : t \in CompanyTails}

InitSections == InitReportWith(DealLists(SectionDeals), SectionContacts)

NextSections ==
    \/ PipelineByStage
    \/ WinRateAnalysis
    \/ PriorityBreakdown
    \/ AverageDealMetrics
    \/ ForecastAnalysis
    \/ ContactEngagement

SpecSections == InitSections /\ [][NextSections]_vars

(***************************************************************************)
(* Properties of the report functions on empty input                       *)
(***************************************************************************)
\* a report function has run on an empty list of deals and an empty list of
\* contacts
ReportedEmpty(name) == Reported(name) /\ deals = <<>> /\ contacts = <<>>

\* the fraction is the number 0
IsZero(r) == r.num = 0 /\ r.den # 0

\* what all functions but average_deal_metrics yield on empty input: no
\* buckets, totals 0, win rate 0, forecast 0, engagement rate 0
NeutralOnEmpty ==
    /\ pc = "done" /\ deals = <<>> /\ contacts = <<>> => returned.t # "raise"
    /\ ReportedEmpty("pipeline_by_stage") =>
           /\ returned = PyDict(<<>>)
           /\ printed = <<[label |-> "TOTAL", count |-> 0, value |-> 0]>>
    /\ ReportedEmpty("win_rate_analysis") =>
           /\ returned.v.total = 0 /\ returned.v.won = 0
           /\ returned.v.lost = 0 /\ returned.v.active = 0
           /\ IsZero(returned.v.win_rate)
           /\ \A j \in 2..4 : printed[j].count = 0 /\ printed[j].value = 0
    /\ ReportedEmpty("priority_breakdown") => printed = <<>>
    /\ ReportedEmpty("forecast_analysis") =>
           printed[1].value = 0 /\ IsZero(printed[2].value)
    /\ ReportedEmpty("contact_engagement") =>
           /\ Len(printed) = 3
           /\ printed[1].count = 0 /\ printed[2].count = 0
           /\ IsZero(printed[3].percentage)

\* C24 as stated: on empty lists every aggregation function completes
\* without an error and yields no buckets, totals 0, win rate 0, mean 0,
\* forecast 0 and engagement rate 0.
C24_ZeroedOnEmpty ==
    /\ NeutralOnEmpty
    /\ ReportedEmpty("average_deal_metrics") =>
           \E j \in DOMAIN printed :
               printed[j].label = "Average Deal Size" /\ IsZero(printed[j].value)

\* C24: on empty lists every aggregation function completes without an
\* error; five of them yield no buckets, totals 0, win rate 0, forecast 0
\* and engagement rate 0, and average_deal_metrics prints 'No deals found'
\* and neither a mean nor a median nor a largest deal.
C24_NeutralOnEmpty ==
    /\ NeutralOnEmpty
    /\ ReportedEmpty("average_deal_metrics") =>
           /\ printed = <<[label |-> "No deals found"]>>
           /\ returned = PyNone

\* C24 witness: average_deal_metrics has run on empty lists and printed
\* 'No deals found'
C24_Witness ==
    /\ ReportedEmpty("average_deal_metrics")
    /\ Len(printed) = 1
    /\ printed[1].label = "No deals found"

(***************************************************************************)
(* Properties of the values aggregated                                     *)
(***************************************************************************)
\* C25: a value is never treated as negative in aggregation and a missing
\* value counts as 0: every stage bucket value, every priority bucket value
\* and the grand total are >= 0, whatever the deals are.
C25_NonNegativeBuckets ==
    /\ Reported("pipeline_by_stage") =>
           /\ \A j \in DOMAIN returned.v : returned.v[j].value >= 0
           /\ \A j \in DOMAIN printed : printed[j].value >= 0
    /\ Reported("priority_breakdown") =>
           \A j \in DOMAIN printed : printed[j].value >= 0

\* the step is a second call of pipeline_by_stage
SecondCall == pc = "done" /\ op = "pipeline_by_stage" /\ pc' = "again"

C27_SectionsAgree ==
    /\ Reported("win_rate_analysis") =>
           LET total == pipeline_by_stage(deals).printed
           IN  /\ printed[2].value + printed[3].value + printed[4].value
                      = total[Len(total)].value
               /\ returned.v.won + returned.v.lost + returned.v.active = Len(deals)
               /\ returned.v.active >= 0
               /\ printed[2].count + printed[3].count + printed[4].count
                      = total[Len(total)].count
    /\ Reported("pipeline_by_stage") =>
           LET won == win_rate_analysis(deals).printed
           IN  printed[Len(printed)].value = won[2].value + won[3].value + won[4].value
    /\ Reported("forecast_analysis") =>
           printed[1].value = win_rate_analysis(deals).printed[4].value

\* C27 witness: forecast_analysis has run on a won deal, a deal without a
\* stage and a Negotiation deal, and its active pipeline 4 is the value of
\* the two active deals
C27_Witness ==
    /\ Reported("forecast_analysis")
    /\ deals = <<("stage" :> "Closed Won") @@ ("value" :> 2), "value" :> 2,
                 ("stage" :> "Negotiation") @@ ("value" :> 2)>>
    /\ printed[1].value = 4
    /\ win_rate_analysis(deals).returned.v.active = 2

(***************************************************************************)
(* Properties of what safe_create_contact / safe_create_deal return        *)
(***************************************************************************)
\* C28: safe_create_contact and safe_create_deal never raise: whatever the
\* outcome of the POST (a failed request, an empty JSON body, a 2xx body
\* without 'created' or with an empty 'created' list), they return the first
\* created record or None.
C28_NeverRaises ==
    (pc = "done" /\ op \in {"contact", "deal"}) =>
        /\ ret.t # "raise"
        /\ \/ ret = PyNone
           \/ /\ ret.t = "dict"
              /\ result.t = "dict"
              /\ ret.v = Get(result.v, "created", <<EmptyDict>>)[1]

(***************************************************************************)
(* Properties of the buckets priority_breakdown leaves out                 *)
(***************************************************************************)
\* the deals whose priority is present and none of the four labels
OtherPriority ==
    DealsWhere(LAMBDA d : /\ "priority" \in DOMAIN d
                          /\ d["priority"] \notin {"High", "Medium", "Low", "Not Set"})

\* the sum of the counts priority_breakdown has printed
PrintedCount == Sum([j \in DOMAIN printed |-> printed[j].count])

\* C29: priority_breakdown accumulates every deal in exactly one bucket and
\* prints only the buckets High, Medium, Low and Not Set: a deal of another
\* priority is in no line, and the printed counts add up to the number of
\* deals exactly when every priority is absent or one of the four labels.
C29_OtherPrioritiesDropped ==
    Reported("priority_breakdown") =>
        LET priorities == GroupBy(deals, "priority", "Not Set")
        IN  /\ Sum([j \in DOMAIN priorities |-> priorities[j].count]) = Len(deals)
            /\ \A j, k \in DOMAIN priorities :
                   priorities[j].key = priorities[k].key => j = k
            /\ \A i \in DOMAIN deals :
                   \E j \in DOMAIN priorities :
                       priorities[j].key = Get(deals[i], "priority", "Not Set")
            /\ \A j \in DOMAIN printed :
                   printed[j].label \in {"High", "Medium", "Low", "Not Set"}
            /\ \A i \in OtherPriority, j \in DOMAIN printed :
                   printed[j].label # deals[i]["priority"]
            /\ PrintedCount = Len(deals) - Cardinality(OtherPriority)
            /\ PrintedCount = Len(deals) <=> OtherPriority = {}

\* C29 witness: of three deals one is Urgent, and the two lines printed
\* count the other two
C29_Witness ==
    /\ Reported("priority_breakdown")
    /\ Len(deals) = 3
    /\ Cardinality(OtherPriority) = 1
    /\ Len(printed) = 2
    /\ PrintedCount = 2

(***************************************************************************)
(* basic_operations.main (src/examples/basic_operations.py).               *)
(*                                                                         *)
(* main calls nine functions in a fixed order; each sends one request,     *)
(* which the environment answers.  An answer is a transport exception or   *)
(* a status with a body that either has the form the function reads        *)
(* (good) or not (JSON of another form, or no JSON); an error status       *)
(* carries text.  Any exception ends main in its `except Exception`.       *)
(* Ids assigned by the server are positive.                                *)
(***************************************************************************)
MainIds == {1, 2}
MainStatuses == {200, 201, 404}

GoodBody(id) == [good |-> TRUE, id |-> id]
BadBody == [good |-> FALSE, id |-> 0]

\* the answers to a request whose good body carries one of the ids
Answers(ids) ==
    {[exc |-> TRUE, status |-> 0, body |-> BadBody]}
        \cup {[exc |-> FALSE, status |-> st, body |-> b] :
                 st \in {x \in MainStatuses : x < 400},
                 b \in {BadBody} \cup {GoodBody(id) : id \in ids}}
        \cup {[exc |-> FALSE, status |-> st, body |-> BadBody] :
                 st \in {x \in MainStatuses : x >= 400}}

PyInt(n) == [t |-> "int", v |-> n]

\* requests.get / post / patch / delete: the request is logged with the
\* status of its answer (0 for a transport exception)
SendRequest(method, path, id, o) ==
    sent' = Append(sent, [method |-> method, path |-> path, id |-> id,
                          status |-> o.status])

\* state when main starts
InitMain ==
    /\ pc = "test_health"
    /\ op = "main"
    /\ record = EmptyDict
    /\ verdict = Verdict(FALSE, "")
    /\ max_retries = 0
    /\ backoff_factor = 0
    /\ attempt = 0
    /\ outcomes = <<>>
    /\ sleeps = <<>>
    /\ result = PyNone
    /\ ret = PyNone
    /\ deals = <<>>
    /\ contacts = <<>>
    /\ printed = <<>>
    /\ returned = PyNone
    /\ sent = <<>>
    /\ contact_id = PyNone
    /\ deal_id = PyNone

\* a function of main that checks `response.status_code == 200`, decodes the
\* body only then, and returns nothing main looks at
Call(here, next, method, path, id, o) ==
    /\ pc = here
    /\ op = "main"
    /\ SendRequest(method, path, id, o)
    /\ pc' = IF o.exc \/ (o.status = 200 /\ ~o.body.good) THEN "error" ELSE next
    /\ UNCHANGED <<op, contact_id, deal_id>>
    /\ UNCHANGED requestVars
    /\ UNCHANGED reportVars

\* test_health(): the body is decoded and read whatever the status is
test_health(o) ==
    /\ pc = "test_health"
    /\ op = "main"
    /\ SendRequest("GET", "/api/health", 0, o)
    /\ pc' = IF o.exc \/ ~o.body.good THEN "error" ELSE "create_contact"
    /\ UNCHANGED <<op, contact_id, deal_id>>
    /\ UNCHANGED requestVars
    /\ UNCHANGED reportVars

\* contact_id = create_contact(); if not contact_id: return
create_contact(o) ==
    /\ pc = "create_contact"
    /\ op = "main"
    /\ SendRequest("POST", "/api/contacts", 0, o)
    /\ IF o.exc \/ (o.status = 201 /\ ~o.body.good)
       THEN pc' = "error" /\ UNCHANGED contact_id
       ELSE IF o.status = 201
       THEN pc' = "list_contacts" /\ contact_id' = PyInt(o.body.id)
       ELSE pc' = "done" /\ contact_id' = PyNone
    /\ UNCHANGED <<op, deal_id>>
    /\ UNCHANGED requestVars
    /\ UNCHANGED reportVars

list_contacts(o) ==
    Call("list_contacts", "update_contact", "GET", "/api/contacts", 0, o)

update_contact(o) ==
    Call("update_contact", "create_deal", "PATCH", "/api/contacts/{id}", contact_id.v, o)

\* faulty variant of create_deal: main goes on after a failed deal creation
create_deal_goes_on(o) ==
    /\ pc = "create_deal"
    /\ op = "main"
    /\ SendRequest("POST", "/api/deals", 0, o)
    /\ IF o.exc \/ (o.status = 201 /\ ~o.body.good)
       THEN pc' = "error" /\ UNCHANGED deal_id
       ELSE IF o.status = 201
       THEN pc' = "update_deal_stage" /\ deal_id' = PyInt(o.body.id)
       ELSE pc' = "update_deal_stage" /\ deal_id' = PyInt(0)
    /\ UNCHANGED <<op, contact_id>>
    /\ UNCHANGED requestVars
    /\ UNCHANGED reportVars

\* deal_id = create_deal(contact_id); if not deal_id: return
create_deal(o) ==
    /\ pc = "create_deal"
    /\ op = "main"
    /\ SendRequest("POST", "/api/deals", 0, o)
    /\ IF o.exc \/ (o.status = 201 /\ ~o.body.good)
       THEN pc' = "error" /\ UNCHANGED deal_id
       ELSE IF o.status = 201
       THEN pc' = "update_deal_stage" /\ deal_id' = PyInt(o.body.id)
       ELSE pc' = "done" /\ deal_id' = PyNone
    /\ UNCHANGED <<op, contact_id>>
    /\ UNCHANGED requestVars
    /\ UNCHANGED reportVars

update_deal_stage(o) ==
    Call("update_deal_stage", "list_deals", "PATCH", "/api/deals/{id}", deal_id.v, o)

list_deals(o) ==
    Call("list_deals", "delete_deal", "GET", "/api/deals", 0, o)

delete_deal(o) ==
    Call("delete_deal", "delete_contact", "DELETE", "/api/deals/{id}", deal_id.v, o)

delete_contact(o) ==
    Call("delete_contact", "done", "DELETE", "/api/contacts/{id}", contact_id.v, o)

NextMain ==
    \/ \E o \in Answers({0}) : test_health(o)
    \/ \E o \in Answers(MainIds) : create_contact(o)
    \/ \E o \in Answers({0}) : list_contacts(o)
    \/ \E o \in Answers({0}) : update_contact(o)
    \/ \E o \in Answers(MainIds) : create_deal(o)
    \/ \E o \in Answers({0}) : update_deal_stage(o)
    \/ \E o \in Answers({0}) : list_deals(o)
    \/ \E o \in Answers({0}) : delete_deal(o)
    \/ \E o \in Answers({0}) : delete_contact(o)

SpecMain == InitMain /\ [][NextMain]_vars

(***************************************************************************)
(* Properties of basic_operations.main                                     *)
(***************************************************************************)
\* the positions in the log of the requests of a method and path
RequestsOf(method, path) ==
    {i \in DOMAIN sent : sent[i].method = method /\ sent[i].path = path}

\* the creation requests that were answered 201, and those that were not
Created(path) == {i \in RequestsOf("POST", path) : sent[i].status = 201}
NotCreated(path) == {i \in RequestsOf("POST", path) : sent[i].status # 201}

\* C30: in a run of main without an exception no request follows a failed
\* contact creation, the DELETE of the created deal is sent before the
\* DELETE of the created contact, and at the end of the run the contact has
\* been deleted exactly if the deal creation succeeded too: after a failed
\* deal creation the run ends and the created contact is not deleted.
C30_MainCleanup ==
    pc # "error" =>
        /\ \A i \in NotCreated("/api/contacts") :
               /\ i = Len(sent)
               /\ pc = "done"
               /\ contact_id = PyNone
        /\ \A i \in RequestsOf("DELETE", "/api/contacts/{id}") :
               /\ sent[i].id = contact_id.v
               /\ \E j \in RequestsOf("DELETE", "/api/deals/{id}") :
                      j < i /\ sent[j].id = deal_id.v
        /\ \A i \in NotCreated("/api/deals") :
               /\ i = Len(sent)
               /\ pc = "done"
               /\ Created("/api/contacts") # {}
               /\ RequestsOf("DELETE", "/api/contacts/{id}") = {}
        /\ pc = "done" =>
               (RequestsOf("DELETE", "/api/contacts/{id}") # {}
                    <=> Created("/api/deals") # {})

\* C30 witness: a complete run: contact 1 and deal 2 were created, the deal
\* was deleted in the eighth request and the contact in the ninth
C30_Witness ==
    /\ pc = "done"
    /\ Len(sent) = 9
    /\ contact_id = PyInt(1)
    /\ deal_id = PyInt(2)
    /\ sent[8] = [method |-> "DELETE", path |-> "/api/deals/{id}", id |-> 2,
                  status |-> 200]
    /\ sent[9] = [method |-> "DELETE", path |-> "/api/contacts/{id}", id |-> 1,
                  status |-> 200]

====
